---- MODULE Spec2Model ----
(***************************************************************************)
(* Portal clients of the zenryoku telegram bot.                            *)
(*                                                                         *)
(* One client instance (CaskanClient = "A", EstamaClient = "B") and the    *)
(* portal it talks to.  Every network request of the code is one action;   *)
(* the portal's answer is chosen by the environment.  The portal keeps a   *)
(* server-side session (sessionLive) which it may drop at any time.        *)
(*                                                                         *)
(* Strings the code builds are modelled by what they carry:                *)
(*   an ISO day string "YYYY-MM-DD"  ->  [y, m, d, pad]                    *)
(*        pad = the fields are zero padded as strftime("%Y-%m-%d") pads    *)
(*   a room display name             ->  <<"name", x>>, f"Room{id}" is     *)
(*                                       <<"Room", id>>                    *)
(*   weekday labels: getsu ka sui moku kin do nichi stand for              *)
(*        the kanji of Monday .. Sunday in weekday_names                   *)
(***************************************************************************)
EXTENDS Integers, Sequences, FiniteSets, TLC

(***************************************************************************)
(* Bounds of the model.                                                    *)
(***************************************************************************)
\* rows parsed from week-view pages during one get_monthly_shift call
MaxRows == 2
\* the same, when the portal is flaky
MaxFlakyRows == 1
\* matching appeal anchors on the guidance page
MaxAnchors == 2
\* rows of the tables of a reservation page
MaxTableRows == 23
\* schedule texts are tried this many characters under and over each threshold
MaxOver == 1
\* table rows or text lines of a news page
MaxNewsRows == 11
\* input elements of the form of an appeal anchor
MaxInputs == 2

(***************************************************************************)
(* Constants of the program.                                               *)
(***************************************************************************)
\* reservations[:20]
ReservationCap == 20
\* len(result_text) <= 3000 (EstamaClient.get_schedule)
ClientThreshold == 3000
\* len(text) > 3500 (the schedule actions of the bot)
ShownThreshold == 3500
\* news_items[:10]
NewsCap == 10
\* cells[0].get_text(strip=True)[:50]
TitleCap == 50

(***************************************************************************)
(* Calendar arithmetic: datetime.date, calendar.monthrange, timedelta.     *)
(***************************************************************************)
IsLeap(y) == (y % 4 = 0 /\ y % 100 # 0) \/ y % 400 = 0

DaysInMonth(y, m) ==
    IF m = 2 THEN (IF IsLeap(y) THEN 29 ELSE 28)
    ELSE IF m \in {4, 6, 9, 11} THEN 30 ELSE 31

\* date(y, m, d) raises ValueError unless this holds
ValidDate(y, m, d) ==
    /\ y >= 1 /\ y <= 9999
    /\ m >= 1 /\ m <= 12
    /\ d >= 1 /\ d <= DaysInMonth(y, m)

DaysBeforeYear(y) ==
    (y - 1) * 365 + ((y - 1) \div 4) - ((y - 1) \div 100) + ((y - 1) \div 400)

\* days of the year before the first of month m (datetime's _DAYS_BEFORE_MONTH)
DaysBeforeMonth(y, m) ==
    <<0, 31, 59, 90, 120, 151, 181, 212, 243, 273, 304, 334>>[m]
        + (IF m > 2 /\ IsLeap(y) THEN 1 ELSE 0)

\* date.toordinal()
ToOrdinal(y, m, d) == DaysBeforeYear(y) + DaysBeforeMonth(y, m) + d

\* date.fromordinal(n), for the years the model uses
YearRange == 2022..2025

OrdYear(n) ==
    CHOOSE y \in YearRange : DaysBeforeYear(y) < n /\ n <= DaysBeforeYear(y + 1)

OrdMonth(y, r) ==
    CHOOSE m \in 1..12 :
        DaysBeforeMonth(y, m) < r /\ r <= DaysBeforeMonth(y, m) + DaysInMonth(y, m)

\* d.strftime("%Y-%m-%d")
strftime(n) ==
    LET y == OrdYear(n)
        r == n - DaysBeforeYear(y)
        m == OrdMonth(y, r)
    IN  [y |-> y, m |-> m, d |-> r - DaysBeforeMonth(y, m), pad |-> TRUE]

\* datetime.strptime(s, "%Y-%m-%d") accepts unpadded fields; FALSE = ValueError
strptimeOk(s) == ValidDate(s.y, s.m, s.d)

\* the empty string
EmptyStr == [y |-> 0, m |-> 0, d |-> 0, pad |-> TRUE]

\* d.weekday(): Monday is 0
weekdaySundayFirst(n) == n % 7

weekday(n) == (n + 6) % 7

weekday_names == <<"getsu", "ka", "sui", "moku", "kin", "do", "nichi">>


(***************************************************************************)
(* State.                                                                  *)
(***************************************************************************)
VARIABLES
    client,         \* "A" CaskanClient, "B" EstamaClient: the instance observed
    portal,         \* "flaky": requests may fail and the session may be dropped;
                    \* "steady": every request is answered and the session kept
    loggedIn,       \* self._logged_in
    csrf_token,     \* self._csrf_token (EstamaClient)
    sessionLive,    \* portal side: the session cookie is still accepted
    op,             \* public operation in progress or just returned
    pc,             \* position of the call: the request it issues next
    inRoom,         \* get_monthly_shift is inside its call of get_room_map
    year, month,    \* arguments of get_monthly_shift
    room_map,       \* get_monthly_shift: room_map
    current,        \* get_monthly_shift: loop cursor (ordinal of the date)
    fetched_weeks,  \* get_monthly_shift: week keys requested, in order
    all_shifts,     \* get_monthly_shift: day string -> list of shifts
    anchors,        \* click_appeal: matching anchors not yet visited
    result,         \* value handed to the caller of the operation
    ev,             \* what happened during the current call (history)
    hist,           \* the preceding _ensure_login call (history)
    bot,            \* handle_caskan_callback, calendar action
    threads         \* two callers sharing the client instance: position of each

vars == <<client, portal, loggedIn, csrf_token, sessionLive, op, pc, inRoom, year, month,
          room_map, current, fetched_weeks, all_shifts, anchors, result, ev,
          hist, bot, threads>>

monthVars == <<year, month, room_map, current, fetched_weeks, all_shifts>>

(***************************************************************************)
(* Public operations of the two clients and the values they return.        *)
(***************************************************************************)
DictOpsA == {"get_home_info", "get_schedule", "get_reservations"}
DictOpsB == {"get_dashboard", "get_guidance_status", "get_schedule", "get_reservations"}
ListOps == {"get_cast_list", "get_news_list"}

\* operations that consist of _ensure_login and one GET
SimpleOps(c) ==
    IF c = "A" THEN DictOpsA \cup {"get_cast_list"}
    ELSE DictOpsB \cup {"get_news_list"}

\* operations the Call action starts (get_monthly_shift and click_appeal are started
\* by their bot handlers)
CallOps(c) ==
    {"login", "_ensure_login"} \cup SimpleOps(c)
        \cup (IF c = "A" THEN {"get_room_map"} ELSE {})

DomainOps == DictOpsA \cup DictOpsB \cup ListOps
                \cup {"get_room_map", "get_monthly_shift", "click_appeal"}

EmptyMap == <<>>
NoValue == [type |-> "none", v |-> FALSE]
Raised == [type |-> "raise", v |-> FALSE]
BoolValue(b) == [type |-> "bool", v |-> b]
ErrorValue(msg) == [type |-> "dict", v |-> [error |-> msg]]
DictValue(d) == [type |-> "dict", v |-> d]
ListValue(l) == [type |-> "list", v |-> l]

\* the return statement under "if not self._ensure_login():"
LoginFailValueEmpty(o) ==
    CASE o \in ListOps -> ListValue(<<>>)
      [] o = "click_appeal" -> BoolValue(FALSE)
      [] OTHER -> DictValue(EmptyMap)

LoginFailValue(o) ==
    CASE o = "get_room_map" -> DictValue(EmptyMap)
      [] o \in ListOps -> ListValue(<<>>)
      [] o = "click_appeal" -> BoolValue(FALSE)
      [] OTHER -> ErrorValue("login")

\* the return statement of the operation's "except Exception as e:"
ExceptValueSilent(o) ==
    CASE o \in ListOps -> ListValue(<<>>)
      [] o = "click_appeal" -> BoolValue(FALSE)
      [] OTHER -> DictValue(EmptyMap)

ExceptValue(o) ==
    CASE o = "get_room_map" -> DictValue(EmptyMap)
      [] o \in ListOps -> ListValue(<<>>)
      [] o = "click_appeal" -> BoolValue(FALSE)
      [] OTHER -> ErrorValue("exception")

\* the value built from the page of the one GET of a simple operation;
\* an error page or the login page matches no pattern and yields empty fields
PageValue(o, kind) ==
    IF o \in ListOps
    THEN ListValue(IF kind = "ok" THEN <<"item">> ELSE <<>>)
    ELSE DictValue([fields |-> IF kind = "ok" THEN "filled" ELSE "empty"])

HasError(r) == r.type = "dict" /\ "error" \in DOMAIN r.v

(***************************************************************************)
(* The portal's answers.  A steady portal gives the first kind of answer   *)
(* only; a flaky one any of them, and any request to it may raise.         *)
(***************************************************************************)
Flaky == portal = "flaky"

\* GET of the probe path without following redirects
ProbeResponses(live) ==
    IF live
    THEN {[status |-> 200, login |-> FALSE], [status |-> 302, login |-> FALSE]}
    ELSE {[status |-> s, login |-> TRUE] : s \in {301, 302, 303, 307, 308}}

Step1Responses == IF Flaky THEN {200, 500} ELSE {200}

\* final response of the password POST: status and whether its URL holds "/login";
\* the portal redirects away from the login path iff it accepted the password
Step2Responses ==
    IF Flaky THEN [status : {200, 500}, urlLogin : BOOLEAN]
    ELSE {[status |-> 200, urlLogin |-> FALSE]}

\* value of the csrf_footer field of the login page, "" when there is none
CsrfPages == IF Flaky THEN {"", "tok"} ELSE {"tok"}

\* AJAX login answer: body is the first element of the JSON array ("OK", "REDIRECT_OK",
\* "NG"), "empty" for an empty array, "object" for a JSON object, "nonjson" for a body
\* that is not JSON
LoginPostResponses ==
    IF Flaky
    THEN [status : {200, 500},
          body : {"OK", "REDIRECT_OK", "NG", "empty", "object", "nonjson"}]
    ELSE [status : {200}, body : {"OK", "REDIRECT_OK"}]

\* pages a data GET can get (redirects followed): with a dead session the portal
\* serves its login page
PageKinds(live) ==
    IF ~live THEN {"loginpage", "http500"}
    ELSE IF Flaky THEN {"ok", "http500"} ELSE {"ok"}

\* status of the appeal POST and of the fallback GET
PostStatuses == IF Flaky THEN {200, 500} ELSE {200}
FallbackStatuses == IF Flaky THEN {200, 404} ELSE {200}

(***************************************************************************)
(* Exceptions.  Handler(site) is the function whose "except Exception"     *)
(* encloses the statement at site; "none" would let it reach the caller.   *)
(***************************************************************************)
HandlerProbeOutside(site) ==
    CASE site \in {"step1", "step2", "loginpost"} -> "login"
      [] site = "csrfget" -> "_get_csrf_token"
      [] site = "probe" -> "none"
      [] site = "room" -> "get_room_map"
      [] site \in {"data", "dates", "week", "guidance", "appealpost", "fallback"} -> "op"

Handler(site) ==
    CASE site \in {"step1", "step2", "loginpost"} -> "login"
      [] site = "csrfget" -> "_get_csrf_token"
      [] site = "probe" -> "_ensure_login"
      [] site = "room" -> "get_room_map"
      [] site \in {"data", "dates", "week", "guidance", "appealpost", "fallback"} -> "op"

\* history of the current call:
\*   logins     login sequences started        room, data, posts   requests issued
\*   rows       rows parsed from week pages
\*   relogin    the operation's own probe found the session expired
\*   topEnsure  what the operation's own _ensure_login returned
\*   opRaised   an exception was raised in the body of the operation itself
\*   weekFailed a week-view request was answered by an error page or the login page
\*   found      click_appeal: matching anchors on the guidance page (-1 before the parse)
\*   fb         click_appeal: status of the fallback GET (0 when it was not answered)
\*   page       the page the data GET of a simple operation was answered with
\*   ptok       click_appeal: value of csrf_footer on the guidance page ("" if none)
\*   form, sent click_appeal: the inputs of the form of the anchor posted last and the
\*              post_data sent for it, until the call issues its next request
\*   blank      cursor dates of the week-view requests answered without any row that
\*              passes the tests of lines 284-300
\* and of the login sequence that ran last, until the call issues its next request:
\*   lr         what login returned ("none" while it runs)
\*   li0        self._logged_in when it started
\*   s1, s2     the answers to step 1 and step 2 (CaskanClient)
\*   ajax       the answer to the AJAX POST (EstamaClient)
\*   pr         the answer to the expiry probe of _ensure_login
\*   er         what _ensure_login returned ("none" while it runs)
NoProbe == [status |-> 0, login |-> FALSE]
ProbeRaised == [status |-> -1, login |-> FALSE]
NoStep2 == [status |-> 0, urlLogin |-> FALSE]
Step2Raised == [status |-> -1, urlLogin |-> FALSE]
NoAjax == [status |-> 0, body |-> "none"]
AjaxRaised == [status |-> 0, body |-> "raised"]

ZeroEv == [logins |-> 0, room |-> 0, data |-> 0, posts |-> 0, rows |-> 0,
           relogin |-> FALSE, topEnsure |-> "none",
           opRaised |-> FALSE, weekFailed |-> FALSE,
           found |-> -1, fb |-> 0, page |-> <<>>, blank |-> {},
           lr |-> "none", li0 |-> FALSE, s1 |-> 0, s2 |-> NoStep2, ajax |-> NoAjax,
           pr |-> NoProbe, er |-> "none",
           ptok |-> "", form |-> <<>>, sent |-> <<>>]

\* the call issues a request: the record of the login sequence before it is dropped
Forget(e) ==
    [e EXCEPT !.lr = "none", !.li0 = FALSE, !.s1 = 0, !.s2 = NoStep2, !.ajax = NoAjax,
              !.pr = NoProbe, !.er = "none", !.form = <<>>, !.sent = <<>>]

\* history of two _ensure_login calls in a row:
\*   prev, prevLogins  what the first returned and the login sequences it started
\*   expPrev, expNow   the portal dropped the session during the first / the second
NoHist == [prev |-> "none", prevLogins |-> 0, expPrev |-> FALSE, expNow |-> FALSE]
\* cb = the callback handled, invoked = calls of click_appeal made by its handler
NoBot == [stage |-> "idle", rendererArg |-> "none", photo |-> FALSE, msg |-> "none",
          shown |-> <<>>, cb |-> "none", invoked |-> 0]

\* the callers that share the client returned by get_caskan / get_estama
Threads == {1, 2}

Other(t) == 3 - t

\* pc        the request the caller's domain operation issues next
\* undercut  the other caller cleared self._logged_in after this one had read it as
\*           true or set it (history)
\* overlap   this caller issued a login request while the other was inside its own
\*           login sequence (history)
NoThread == [pc |-> "idle", undercut |-> FALSE, overlap |-> FALSE]

LoginStart == IF client = "A" THEN "step1" ELSE "csrfget"

Init ==
    /\ client \in {"A", "B"}
    /\ portal \in {"flaky", "steady"}
    /\ loggedIn = FALSE
    /\ csrf_token = ""
    /\ sessionLive = FALSE
    /\ op = "none"
    /\ pc = "idle"
    /\ inRoom = FALSE
    /\ year = 0 /\ month = 0
    /\ room_map = EmptyMap
    /\ current = 0
    /\ fetched_weeks = <<>>
    /\ all_shifts = <<>>
    /\ anchors = 0
    /\ result = NoValue
    /\ ev = ZeroEv
    /\ hist = NoHist
    /\ bot = NoBot
    /\ threads = [t \in Threads |-> NoThread]

(***************************************************************************)
(* Returning from the nested functions.  e is the history record to store  *)
(* and li the value of self._logged_in after the step.                     *)
(***************************************************************************)
Goto(p, e) ==
    /\ pc' = p
    /\ ev' = e
    /\ UNCHANGED <<result, inRoom, room_map, current, fetched_weeks, all_shifts>>

\* the public operation returns r to its caller
Return(r, e) ==
    /\ pc' = "done"
    /\ result' = r
    /\ ev' = e
    /\ inRoom' = FALSE

Finish(r, e) ==
    /\ Return(r, e)
    /\ UNCHANGED <<room_map, current, fetched_weeks, all_shifts>>

\* what the caller gets when the body of the public operation raises at site
RaiseValue(site) == IF Handler(site) = "op" THEN ExceptValue(op) ELSE Raised

\* an exception raised in the body of the public operation itself
RaiseInOp(site, e) ==
    Finish(RaiseValue(site), [e EXCEPT !.opRaised = TRUE])

\* get_room_map has its map (rm = {} after a failed login or an exception);
\* get_monthly_shift goes on to date_type(year, month, 1), which raises
\* ValueError for an invalid month, and to the first pass of its loop
AfterRoomMap(rm, e) ==
    IF op = "get_room_map"
    THEN Finish(DictValue(rm), e)
    ELSE IF ValidDate(year, month, 1)
         THEN /\ pc' = "week"
              /\ ev' = e
              /\ inRoom' = FALSE
              /\ room_map' = rm
              /\ current' = ToOrdinal(year, month, 1)
              /\ fetched_weeks' = <<>>
              /\ all_shifts' = <<>>
              /\ UNCHANGED result
         ELSE RaiseInOp("dates", e)

\* "if not self._ensure_login(): return ...": the operation goes on iff v
EnsureIgnored(v) == TRUE

EnsureOk(v) == v

\* _ensure_login returns v to the operation that called it
AfterEnsure(v, e, li) ==
    LET e1 == [e EXCEPT !.er = IF v THEN "true" ELSE "false"]
        e2 == IF inRoom THEN e1
              ELSE [e1 EXCEPT !.topEnsure = IF v THEN "true" ELSE "false"]
    IN  CASE op = "_ensure_login" -> Finish(BoolValue(v), e2)
          [] op # "_ensure_login" /\ inRoom ->
                IF EnsureOk(v) THEN Goto("room", e2) ELSE AfterRoomMap(EmptyMap, e2)
          [] op = "get_monthly_shift" /\ ~inRoom ->
                IF EnsureOk(v)
                THEN /\ inRoom' = TRUE
                     /\ pc' = IF li THEN "probe" ELSE LoginStart
                     /\ ev' = e2
                     /\ UNCHANGED <<result, room_map, current, fetched_weeks, all_shifts>>
                ELSE Finish(LoginFailValue(op), e2)
          [] op = "get_room_map" /\ ~inRoom ->
                IF EnsureOk(v) THEN Goto("room", e2) ELSE Finish(LoginFailValue(op), e2)
          [] op = "click_appeal" ->
                IF EnsureOk(v) THEN Goto("guidance", e2) ELSE Finish(LoginFailValue(op), e2)
          [] OTHER ->
                IF EnsureOk(v) THEN Goto("data", e2) ELSE Finish(LoginFailValue(op), e2)

\* login returns v: to the caller when it is the public operation, else to _ensure_login,
\* which returns it unchanged
LoginReturn(v, e, li) ==
    LET e1 == [e EXCEPT !.lr = IF v THEN "true" ELSE "false"]
    IN  IF op = "login" THEN Finish(BoolValue(v), e1) ELSE AfterEnsure(v, e1, li)

\* "except Exception: pass" and "return True" of _ensure_login
ProbeFailureValueFalse == FALSE

ProbeFailureValue == TRUE

\* an exception raised at site
Raise(site, e, li) ==
    LET h == Handler(site)
    IN  /\ Flaky
        /\ CASE h \in {"login", "_get_csrf_token"} -> LoginReturn(FALSE, e, li)
             [] h = "_ensure_login" -> AfterEnsure(ProbeFailureValue, e, li)
             [] h = "get_room_map" ->
                   AfterRoomMap(EmptyMap, [e EXCEPT !.opRaised = (op = "get_room_map")])
             [] OTHER -> RaiseInOp(site, e)

(***************************************************************************)
(* The portal drops the session.                                           *)
(***************************************************************************)
Expire ==
    /\ Flaky
    /\ sessionLive
    /\ sessionLive' = FALSE
    /\ hist' = IF op = "_ensure_login" THEN [hist EXCEPT !.expNow = TRUE] ELSE hist
    /\ UNCHANGED <<threads, client, portal, loggedIn, csrf_token, op, pc, inRoom, year, month, room_map,
                   current, fetched_weeks, all_shifts, anchors, result, ev, bot>>

(***************************************************************************)
(* A caller invokes public operation o.  login starts its sequence;        *)
(* every other operation starts with _ensure_login, which logs in when     *)
(* self._logged_in is false and probes the session otherwise.              *)
(***************************************************************************)
CanCall == pc = "idle" \/ (pc = "done" /\ bot.stage # "await")

Call(o) ==
    /\ CanCall
    /\ o \in CallOps(client)
    /\ op' = o
    /\ pc' = IF o = "login" \/ ~loggedIn THEN LoginStart ELSE "probe"
    /\ result' = NoValue
    /\ ev' = ZeroEv
    /\ hist' = IF o = "_ensure_login" /\ op = "_ensure_login" /\ pc = "done"
               THEN [prev |-> IF result.v THEN "true" ELSE "false",
                     prevLogins |-> ev.logins,
                     expPrev |-> hist.expNow,
                     expNow |-> FALSE]
               ELSE NoHist
    /\ inRoom' = FALSE
    /\ year' = 0 /\ month' = 0
    /\ room_map' = EmptyMap
    /\ current' = 0
    /\ fetched_weeks' = <<>>
    /\ all_shifts' = <<>>
    /\ anchors' = 0
    /\ bot' = NoBot
    /\ UNCHANGED <<threads, client, portal, loggedIn, csrf_token, sessionLive>>

(***************************************************************************)
(* _ensure_login: the expiry probe.                                        *)
(***************************************************************************)
\* resp.status_code in (301, 302) and "/login" in Location
ProbeSaysExpiredAnyRedirect(resp) == resp.status \in {301, 302}

ProbeSaysExpired(resp) == resp.status \in {301, 302} /\ resp.login

\* "self._logged_in = False" before the re-login
FlagOnExpiryKept == TRUE

FlagOnExpiry == FALSE

Probe ==
    /\ pc = "probe"
    /\ LET e == Forget(ev)
       IN  \/ \* the GET raises
              /\ Raise("probe", [e EXCEPT !.pr = ProbeRaised], loggedIn)
              /\ UNCHANGED loggedIn
           \/ \E resp \in ProbeResponses(sessionLive) :
                IF ProbeSaysExpired(resp)
                THEN /\ loggedIn' = FlagOnExpiry
                     /\ Goto(LoginStart, IF inRoom THEN [e EXCEPT !.pr = resp]
                                         ELSE [e EXCEPT !.pr = resp, !.relogin = TRUE])
                ELSE /\ UNCHANGED loggedIn
                     /\ AfterEnsure(TRUE, [e EXCEPT !.pr = resp], loggedIn)
    /\ UNCHANGED <<threads, client, portal, csrf_token, sessionLive, op, year, month, anchors, hist, bot>>

(***************************************************************************)
(* CaskanClient.login: two form POSTs.                                     *)
(***************************************************************************)
\* resp.status_code != 200 returns False
Step1OkAlways(status) == TRUE

Step1Ok(status) == status = 200

LoginStep1 ==
    /\ pc = "step1"
    /\ LET e == [Forget(ev) EXCEPT !.logins = @ + 1, !.li0 = loggedIn]
       IN  \/ Raise("step1", e, loggedIn)
           \/ \E status \in Step1Responses :
                IF ~Step1Ok(status)
                THEN LoginReturn(FALSE, [e EXCEPT !.s1 = status], loggedIn)
                ELSE Goto("step2", [e EXCEPT !.s1 = status])
    /\ UNCHANGED <<threads, client, portal, loggedIn, csrf_token, sessionLive, op, year, month, anchors,
                   hist, bot>>

\* "/login" not in resp2.url
Step2Ok(resp) == ~resp.urlLogin

LoginStep2 ==
    /\ pc = "step2"
    /\ \/ /\ Raise("step2", [ev EXCEPT !.s2 = Step2Raised], loggedIn)
          /\ UNCHANGED <<loggedIn, sessionLive>>
       \/ \E resp \in Step2Responses :
            IF Step2Ok(resp)
            THEN /\ loggedIn' = TRUE
                 /\ sessionLive' = TRUE
                 /\ LoginReturn(TRUE, [ev EXCEPT !.s2 = resp], TRUE)
            ELSE /\ UNCHANGED <<loggedIn, sessionLive>>
                 /\ LoginReturn(FALSE, [ev EXCEPT !.s2 = resp], loggedIn)
    /\ UNCHANGED <<threads, client, portal, csrf_token, op, year, month, anchors, hist, bot>>

(***************************************************************************)
(* EstamaClient.login: CSRF token from the login page, then the AJAX POST. *)
(***************************************************************************)
\* "if not self._csrf_token"
TokenMissingNever(tok) == FALSE

TokenMissing(tok) == tok = ""

LoginCsrf ==
    /\ pc = "csrfget"
    /\ LET e == [Forget(ev) EXCEPT !.logins = @ + 1, !.li0 = loggedIn]
       IN  \/ \* _get_csrf_token swallows the exception and returns ""
              /\ csrf_token' = ""
              /\ Raise("csrfget", e, loggedIn)
           \/ \E tok \in CsrfPages :
                /\ csrf_token' = tok
                /\ IF TokenMissing(tok)
                   THEN LoginReturn(FALSE, e, loggedIn)
                   ELSE Goto("loginpost", e)
    /\ UNCHANGED <<threads, client, portal, loggedIn, sessionLive, op, year, month, anchors, hist, bot>>

\* resp.status_code == 200 and resp.json()[0] in ("OK", "REDIRECT_OK"); resp.json()
\* and the subscript raise for the other bodies, which the inner except swallows
LoginPostOkAnyStatus(resp) == resp.body \in {"OK", "REDIRECT_OK"}

LoginPostOk(resp) == resp.status = 200 /\ resp.body \in {"OK", "REDIRECT_OK"}

LoginPost ==
    /\ pc = "loginpost"
    /\ \/ /\ Raise("loginpost", [ev EXCEPT !.ajax = AjaxRaised], loggedIn)
          /\ UNCHANGED <<loggedIn, sessionLive>>
       \/ \E resp \in LoginPostResponses :
            IF LoginPostOk(resp)
            THEN /\ loggedIn' = TRUE
                 /\ sessionLive' = TRUE
                 /\ LoginReturn(TRUE, [ev EXCEPT !.ajax = resp], TRUE)
            ELSE /\ UNCHANGED <<loggedIn, sessionLive>>
                 /\ LoginReturn(FALSE, [ev EXCEPT !.ajax = resp], loggedIn)
    /\ UNCHANGED <<threads, client, portal, csrf_token, op, year, month, anchors, hist, bot>>

(***************************************************************************)
(* Texts.  A text is the sequence of its characters: a character of page   *)
(* text is a positive number, a blank is -1, the bar of the row delimiter  *)
(* -2, and the characters of the program's own literals are below -10.     *)
(***************************************************************************)
Blank == -1
Bar == -2

\* s[:n]
Slice(s, n) == [i \in 1..(IF Len(s) < n THEN Len(s) ELSE n) |-> s[i]]

\* s.strip()
RECURSIVE LStrip(_)
LStrip(s) == IF s # <<>> /\ Head(s) = Blank THEN LStrip(Tail(s)) ELSE s

RECURSIVE RStrip(_)
RStrip(s) ==
    IF s # <<>> /\ s[Len(s)] = Blank THEN RStrip(SubSeq(s, 1, Len(s) - 1)) ELSE s

Strip(s) == RStrip(LStrip(s))

(***************************************************************************)
(* get_reservations (both clients): every row of every table.              *)
(***************************************************************************)
\* a table row is the sequence of the stripped texts of its cells: 0 is the empty
\* text, i > 0 the one-character text i
CellText(c) == IF c = 0 THEN <<>> ELSE <<c>>

\* " | ".join(c.get_text(strip=True) for c in cells)
RECURSIVE Join(_)
Join(cells) ==
    IF Len(cells) = 0 THEN <<>>
    ELSE IF Len(cells) = 1 THEN CellText(cells[1])
    ELSE CellText(cells[1]) \o <<Blank, Bar, Blank>> \o Join(Tail(cells))

\* rows without cells, with one empty cell, with two empty cells
OddTableRows == << <<>>, <<0>>, <<0, 0>> >>

\* a page of n rows, every k-th of them odd (none when k = 0)
ReservationPage(n, k) ==
    [i \in 1..n |->
        IF k > 0 /\ i % k = 0 THEN OddTableRows[((i \div k) % 3) + 1]
        ELSE IF i % 2 = 0 THEN <<i, 0>> ELSE <<i>>]

ReservationPages == {ReservationPage(n, k) : n \in 0..MaxTableRows, k \in {0, 3, 11}}

\* the loop of lines 193-202: the list reservations after the rows are visited
RECURSIVE ParseReservations(_, _)
ParseReservations(rows, reservations) ==
    IF rows = <<>> THEN reservations
    ELSE LET cells == Head(rows)
             row_text == Join(cells)
         IN  IF cells # <<>> /\ Strip(row_text) # <<>>
             THEN ParseReservations(Tail(rows), Append(reservations, row_text))
             ELSE ParseReservations(Tail(rows), reservations)

\* the dict returned at lines 204-207
ReservationsValueCapped(reservations) ==
    DictValue([reservations |-> Slice(reservations, ReservationCap),
               count |-> Len(Slice(reservations, ReservationCap))])

ReservationsValue(reservations) ==
    DictValue([reservations |-> Slice(reservations, ReservationCap),
               count |-> Len(reservations)])

(***************************************************************************)
(* get_schedule.  The page is modelled by the text the line heuristics     *)
(* build from it (result_text); <<>> when no line is recognised.           *)
(***************************************************************************)
\* a text of n page characters
Text(n) == [i \in 1..n |-> i]

Newline == -11
Dot == -12

\* "\n..."
ClientMarker == <<Newline, Dot, Dot, Dot>>

\* "\n\n... (" + the ten characters of the notice + ")"
ShownMarker ==
    <<Newline, Newline, Dot, Dot, Dot, Blank, -13>> \o [i \in 1..10 |-> -20 - i] \o <<-14>>

\* the sixteen characters of the notice CaskanClient returns when no line is recognised
NotFoundText == [i \in 1..16 |-> -30 - i]

\* text if len(text) <= thr else text[:thr] + marker
TruncateEarly(text, thr, marker) ==
    IF Len(text) < thr THEN text ELSE Slice(text, thr) \o marker

Truncate(text, thr, marker) ==
    IF Len(text) <= thr THEN text ELSE Slice(text, thr) \o marker

ScheduleLengths ==
    {0, 1} \cup {t + d : t \in {ClientThreshold, ShownThreshold}, d \in (0 - MaxOver)..MaxOver}

SchedulePages == {Text(n) : n \in ScheduleLengths}

\* the dict returned by get_schedule of client c
ScheduleValue(c, text) ==
    DictValue([schedule_text |->
        IF c = "A" THEN (IF text = <<>> THEN NotFoundText ELSE text)
        ELSE Truncate(text, ClientThreshold, ClientMarker)])

(***************************************************************************)
(* get_news_list.  A news page is a sequence of entries: a table row after *)
(* the header with `cells` td cells whose first holds n characters, or a   *)
(* text line made of a date of dl characters (0: no date), a blank and n   *)
(* characters.                                                             *)
(***************************************************************************)
Digit == -15

NewsEntries ==
    [src : {"row"}, cells : {1, 2}, n : {TitleCap, TitleCap + 1}, dl : {0}]
        \cup [src : {"line"}, cells : {0}, n : {1, TitleCap, TitleCap + 1, 89}, dl : {0, 10}]

NewsPage(k, e) == [i \in 1..k |-> e]

NewsPages == {NewsPage(k, e) : k \in 0..MaxNewsRows, e \in NewsEntries}

\* the text of a line entry
LineText(e) ==
    IF e.dl > 0 THEN [i \in 1..e.dl |-> Digit] \o <<Blank>> \o Text(e.n) ELSE Text(e.n)

\* line.replace(date_match.group(), "").strip()
LineTitle(line) == Strip(SelectSeq(line, LAMBDA c : c # Digit))

\* lines 332-341: the rows with at least two cells
RECURSIVE ParseNewsRows(_, _)
ParseNewsRows(page, news_items) ==
    IF page = <<>> THEN news_items
    ELSE LET e == Head(page)
         IN  IF e.src = "row" /\ e.cells >= 2
             THEN ParseNewsRows(Tail(page),
                        Append(news_items, [title |-> Slice(Text(e.n), TitleCap),
                                            date |-> "cell"]))
             ELSE ParseNewsRows(Tail(page), news_items)

\* lines 344-355: the lines of 6 to 99 characters that hold a date
RECURSIVE ParseNewsLines(_, _)
ParseNewsLines(page, news_items) ==
    IF page = <<>> THEN news_items
    ELSE LET e == Head(page)
             line == LineText(e)
         IN  IF e.src = "line" /\ Len(line) > 5 /\ Len(line) < 100 /\ e.dl > 0
             THEN ParseNewsLines(Tail(page),
                        Append(news_items, [title |-> LineTitle(line), date |-> "match"]))
             ELSE ParseNewsLines(Tail(page), news_items)

\* the list returned at line 357
NewsValue(page) ==
    LET from_rows == ParseNewsRows(page, <<>>)
        news_items == IF Len(from_rows) = 0 THEN ParseNewsLines(page, <<>>) ELSE from_rows
    IN  ListValue(Slice(news_items, NewsCap))

(***************************************************************************)
(* The one GET of a simple operation and the parse of its page.            *)
(***************************************************************************)
\* pages the GET of operation o can be answered with; an error page or the login
\* page holds nothing the parse of o recognises
Pages(o, kind) ==
    IF kind # "ok" THEN {<<>>}
    ELSE CASE o = "get_reservations" -> ReservationPages
           [] o = "get_schedule" -> SchedulePages
           [] o = "get_news_list" -> NewsPages
           [] OTHER -> {<<>>}

Parse(c, o, kind, page) ==
    CASE o = "get_reservations" -> ReservationsValue(ParseReservations(page, <<>>))
      [] o = "get_schedule" -> ScheduleValue(c, page)
      [] o = "get_news_list" -> NewsValue(page)
      [] OTHER -> PageValue(o, kind)

DataRequest ==
    /\ pc = "data"
    /\ LET e == [Forget(ev) EXCEPT !.data = @ + 1]
       IN  \/ Raise("data", e, loggedIn)
           \/ \E kind \in PageKinds(sessionLive) :
                \E page \in Pages(op, kind) :
                    Finish(Parse(client, op, kind, page), [e EXCEPT !.page = page])
    /\ UNCHANGED <<threads, client, portal, loggedIn, csrf_token, sessionLive, op, year, month, anchors,
                   hist, bot>>

(***************************************************************************)
(* get_room_map: the room page.                                            *)
(***************************************************************************)
Rooms == {"1", "2"}

\* room maps the room page can yield: no row matched, or room "1" only
RoomMaps(kind) ==
    IF kind = "ok" THEN {EmptyMap, [r \in {"1"} |-> <<"name", "A">>]} ELSE {EmptyMap}

RoomRequest ==
    /\ pc = "room"
    /\ LET e == [Forget(ev) EXCEPT !.room = @ + 1]
       IN  \/ Raise("room", e, loggedIn)
           \/ \E kind \in PageKinds(sessionLive) :
                \E rm \in RoomMaps(kind) : AfterRoomMap(rm, e)
    /\ UNCHANGED <<threads, client, portal, loggedIn, csrf_token, sessionLive, op, year, month, anchors,
                   hist, bot>>

(***************************************************************************)
(* get_monthly_shift: the weekly loop.                                     *)
(***************************************************************************)
\* rows of a parts-cast-table: td = the row has a td, span = the td holds a span
\* with data-room-id; name / time the text of the first / second div.  The time
\* text of a row repeats the data-day of the row (EmptyStr when the row has none),
\* so that an entry shows the row it was built from.
ShiftRows(a) ==
    [td : {TRUE}, span : {TRUE}, name : {"n1"}, time : {strftime(a + 6)}, room_id : Rooms,
     day : {strftime(a + 6)}]

OddRows(a) ==
    LET key == strftime(a)
        base == [td |-> TRUE, span |-> TRUE, name |-> "n1", time |-> key,
                 room_id |-> "1", day |-> key]
        Dated(d) == [base EXCEPT !.day = d, !.time = d]
    IN  { [Dated(EmptyStr) EXCEPT !.td = FALSE],
          [Dated(EmptyStr) EXCEPT !.span = FALSE],
          [base EXCEPT !.name = ""],
          Dated(EmptyStr),
          Dated([key EXCEPT !.m = 13]),
          Dated([key EXCEPT !.pad = FALSE]) }

WeekRows(a) == ShiftRows(a) \cup OddRows(a)

\* rows the week pages of one call carry in all
RowBudget == IF Flaky THEN MaxFlakyRows ELSE MaxRows

\* week-view pages with at most n rows
WeekPages(a, n) == UNION {[1..k -> WeekRows(a)] : k \in 0..n}

\* room_map.get(room_id, f"Room{room_id}")
RoomName(rm, id) == IF id \in DOMAIN rm THEN rm[id] ELSE <<"Room", id>>

\* all_shifts after the row is processed (lines 283-309)
AddRowNormalised(shifts, row, rm, yr, mo) ==
    IF ~row.td THEN shifts
    ELSE IF ~row.span THEN shifts
    ELSE IF row.day = EmptyStr \/ row.name = "" THEN shifts
    ELSE IF ~strptimeOk(row.day) THEN shifts
    ELSE IF row.day.y = yr /\ row.day.m = mo
         THEN LET entry == [name |-> row.name, time |-> row.time,
                            room_id |-> row.room_id,
                            room_name |-> RoomName(rm, row.room_id)]
                  key == [row.day EXCEPT !.pad = TRUE]
                  old == IF key \in DOMAIN shifts THEN shifts[key] ELSE <<>>
              IN  [k \in DOMAIN shifts \cup {key} |->
                      IF k = key THEN Append(old, entry) ELSE shifts[k]]
         ELSE shifts

AddRow(shifts, row, rm, yr, mo) ==
    IF ~row.td THEN shifts
    ELSE IF ~row.span THEN shifts
    ELSE IF row.day = EmptyStr \/ row.name = "" THEN shifts
    ELSE IF ~strptimeOk(row.day) THEN shifts
    ELSE IF row.day.y = yr /\ row.day.m = mo
         THEN LET entry == [name |-> row.name, time |-> row.time,
                            room_id |-> row.room_id,
                            room_name |-> RoomName(rm, row.room_id)]
                  old == IF row.day \in DOMAIN shifts THEN shifts[row.day] ELSE <<>>
              IN  [k \in DOMAIN shifts \cup {row.day} |->
                      IF k = row.day THEN Append(old, entry) ELSE shifts[k]]
         ELSE shifts

\* the row passes every "continue" of lines 284-300
Recognised(row) ==
    /\ row.td /\ row.span
    /\ row.day # EmptyStr /\ row.name # ""
    /\ strptimeOk(row.day)

RECURSIVE AddRows(_, _, _, _, _)
AddRows(shifts, rows, rm, yr, mo) ==
    IF rows = <<>> THEN shifts
    ELSE AddRows(AddRow(shifts, Head(rows), rm, yr, mo), Tail(rows), rm, yr, mo)

first_day == ToOrdinal(year, month, 1)
last_day == ToOrdinal(year, month, DaysInMonth(year, month))

\* list(set): the members of S in the iteration order of the interpreter
SetToList(S, order) == SelectSeq(order, LAMBDA x : x \in S)

SetOrders == {o \in [1..Cardinality(Rooms) -> Rooms] : \A r \in Rooms : \E i \in DOMAIN o : o[i] = r}

RoomIds(shifts) == {shifts[i].room_id : i \in DOMAIN shifts}

\* lines 312-325: one record per date from first_day to last_day
FillDaysShort(shifts, order) ==
    [k \in {strftime(n) : n \in first_day..(last_day - 1)} |->
        LET n == ToOrdinal(k.y, k.m, k.d)
            sh == IF k \in DOMAIN shifts THEN shifts[k] ELSE <<>>
        IN  [weekday |-> weekday_names[weekday(n) + 1],
             shifts |-> sh,
             rooms_used |-> SetToList(RoomIds(sh), order)]]

FillDaysNoSet(shifts, order) ==
    [k \in {strftime(n) : n \in first_day..last_day} |->
        LET n == ToOrdinal(k.y, k.m, k.d)
            sh == IF k \in DOMAIN shifts THEN shifts[k] ELSE <<>>
        IN  [weekday |-> weekday_names[weekday(n) + 1],
             shifts |-> sh,
             rooms_used |-> [i \in DOMAIN sh |-> sh[i].room_id]]]

FillDays(shifts, order) ==
    [k \in {strftime(n) : n \in first_day..last_day} |->
        LET n == ToOrdinal(k.y, k.m, k.d)
            sh == IF k \in DOMAIN shifts THEN shifts[k] ELSE <<>>
        IN  [weekday |-> weekday_names[weekday(n) + 1],
             shifts |-> sh,
             rooms_used |-> SetToList(RoomIds(sh), order)]]

MonthValueNeedsShifts(shifts, order) ==
    IF DOMAIN shifts = {} THEN ErrorValue("no shifts")
    ELSE DictValue([year |-> year, month |-> month, room_map |-> room_map,
                    days |-> FillDays(shifts, order)])

MonthValue(shifts, order) ==
    DictValue([year |-> year, month |-> month, room_map |-> room_map,
               days |-> FillDays(shifts, order)])

\* current += timedelta(days=7)
NextCursorEight(c) == c + 8

NextCursorSix(c) == c + 6

NextCursor(c) == c + 7

\* one pass of "while current <= last_day" and, after the last pass, lines 312-332
WeekRequest ==
    /\ pc = "week"
    /\ LET week_key == strftime(current)
           issued == week_key \notin {fetched_weeks[i] : i \in DOMAIN fetched_weeks}
           fw == IF issued THEN Append(fetched_weeks, week_key) ELSE fetched_weeks
           After(shifts, e) ==
               /\ fetched_weeks' = fw
               /\ all_shifts' = shifts
               /\ current' = NextCursor(current)
               /\ IF NextCursor(current) <= last_day
                  THEN /\ pc' = "week"
                       /\ ev' = e
                       /\ UNCHANGED result
                  ELSE /\ pc' = "done"
                       /\ ev' = e
                       /\ \E order \in SetOrders : result' = MonthValue(shifts, order)
               /\ UNCHANGED <<inRoom, room_map>>
           e0 == Forget(ev)
       IN  IF ~issued
           THEN After(all_shifts, e0)
           ELSE \/ /\ Flaky
                   /\ Return(RaiseValue("week"), [e0 EXCEPT !.opRaised = TRUE])
                   /\ fetched_weeks' = fw
                   /\ UNCHANGED <<room_map, current, all_shifts>>
                \/ \E kind \in PageKinds(sessionLive) :
                     \E page \in (IF kind = "ok" THEN WeekPages(current, RowBudget - ev.rows)
                                  ELSE {<<>>}) :
                        After(AddRows(all_shifts, page, room_map, year, month),
                              [e0 EXCEPT !.rows = @ + Len(page),
                                         !.weekFailed = @ \/ kind # "ok",
                                         !.blank = IF \E i \in DOMAIN page :
                                                          Recognised(page[i])
                                                   THEN @ ELSE @ \cup {current}])
    /\ UNCHANGED <<threads, client, portal, loggedIn, csrf_token, sessionLive, op, year, month, anchors,
                   hist, bot>>

(***************************************************************************)
(* EstamaClient.click_appeal.                                              *)
(***************************************************************************)
\* input elements of a form: name "" when the element has no name attribute
Inputs ==
    {[name |-> "", value |-> "v0"], [name |-> "f1", value |-> "v1"],
     [name |-> "f2", value |-> "v2"]}

\* forms an anchor can point at; <<>> also stands for an anchor without a form
Forms == UNION {[1..k -> Inputs] : k \in 0..MaxInputs}

\* lines 285-292: post_data is a dict from keys to values; the key "ctk" is written
\* <<-1, "ctk">> and the key "str[i][part]" is written <<i, part>>
RECURSIVE AddInputs(_, _)
AddInputs(post_data, inputs) ==
    IF inputs = <<>> THEN post_data
    ELSE LET inp == Head(inputs)
             written == [k \in DOMAIN post_data \cup {<<0, "name">>, <<0, "value">>} |->
                            IF k = <<0, "name">> THEN inp.name
                            ELSE IF k = <<0, "value">> THEN inp.value
                            ELSE post_data[k]]
         IN  AddInputs(IF inp.name # "" THEN written ELSE post_data, Tail(inputs))

PostData(form, ctk) == AddInputs([k \in {<<-1, "ctk">>} |-> ctk], form)

\* csrf_input["value"] if csrf_input else self._csrf_token
AppealToken(ptok) == IF ptok # "" THEN ptok ELSE csrf_token

\* GET of the guidance page; n = number of send-post anchors that match
AppealGuidance ==
    /\ pc = "guidance"
    /\ LET e == [Forget(ev) EXCEPT !.data = @ + 1]
       IN  \/ /\ Raise("guidance", e, loggedIn)
              /\ UNCHANGED anchors
           \/ \E kind \in PageKinds(sessionLive) :
                \E n \in (IF kind = "ok" THEN 0..MaxAnchors ELSE {0}) :
                  \E tok \in (IF kind = "ok" THEN {"", "ptok"} ELSE {""}) :
                    /\ anchors' = n
                    /\ Goto(IF n > 0 THEN "appealpost" ELSE "fallback",
                            [e EXCEPT !.found = n, !.ptok = tok])
    /\ UNCHANGED <<threads, client, portal, loggedIn, csrf_token, sessionLive, op, year, month, hist, bot>>

\* the POST for the next matching anchor: 200 returns True, anything else goes on
\* to the next anchor and after the last one to the fallback
AppealPost ==
    /\ pc = "appealpost"
    /\ \E form \in Forms :
         LET e == [Forget(ev) EXCEPT !.posts = @ + 1, !.form = form,
                                     !.sent = PostData(form, AppealToken(ev.ptok))]
         IN  \/ /\ Raise("appealpost", e, loggedIn)
                /\ UNCHANGED anchors
             \/ \E status \in PostStatuses :
                  IF status = 200
                  THEN /\ Finish(BoolValue(TRUE), e)
                       /\ UNCHANGED anchors
                  ELSE /\ anchors' = anchors - 1
                       /\ Goto(IF anchors - 1 > 0 THEN "appealpost" ELSE "fallback", e)
    /\ UNCHANGED <<threads, client, portal, loggedIn, csrf_token, sessionLive, op, year, month, hist, bot>>

\* resp3.status_code == 200
FallbackOkAlways(status) == TRUE

FallbackOk(status) == status = 200

\* the fallback GET of the appeal path
AppealFallback ==
    /\ pc = "fallback"
    /\ LET e == [Forget(ev) EXCEPT !.data = @ + 1]
       IN  \/ Raise("fallback", e, loggedIn)
           \/ \E status \in FallbackStatuses :
                Finish(BoolValue(FallbackOk(status)), [e EXCEPT !.fb = status])
    /\ UNCHANGED <<threads, client, portal, loggedIn, csrf_token, sessionLive, op, year, month, anchors,
                   hist, bot>>

(***************************************************************************)
(* handle_caskan_callback, action "calendar:YYYY-MM".                      *)
(***************************************************************************)
\* months asked for: 28, 29, 30 and 31 days, and month numbers no calendar has
YearMonths == {<<2023, 2>>, <<2024, 2>>, <<2024, 4>>, <<2024, 12>>, <<2024, 0>>, <<2024, 13>>}

\* callback payloads: ok = int() parses both fields
CalendarPayloads ==
    {[ok |-> TRUE, y |-> ym[1], m |-> ym[2]] : ym \in YearMonths}
        \cup {[ok |-> FALSE, y |-> 0, m |-> 0]}

\* "error" in data_monthly
BotSeesErrorNever(r) == FALSE

BotSeesError(r) == HasError(r)

\* lines 832-841: parse the payload and call get_monthly_shift
BotCalendar(p) ==
    /\ CanCall
    /\ client = "A"
    /\ p \in CalendarPayloads
    /\ result' = NoValue
    /\ ev' = ZeroEv
    /\ hist' = NoHist
    /\ inRoom' = FALSE
    /\ room_map' = EmptyMap
    /\ current' = 0
    /\ fetched_weeks' = <<>>
    /\ all_shifts' = <<>>
    /\ anchors' = 0
    /\ IF p.ok
       THEN /\ op' = "get_monthly_shift"
            /\ year' = p.y /\ month' = p.m
            /\ pc' = IF loggedIn THEN "probe" ELSE LoginStart
            /\ bot' = [NoBot EXCEPT !.stage = "await"]
       ELSE /\ op' = "none"
            /\ year' = 0 /\ month' = 0
            /\ pc' = "idle"
            /\ bot' = [NoBot EXCEPT !.stage = "finished", !.msg = "format"]
    /\ UNCHANGED <<threads, client, portal, loggedIn, csrf_token, sessionLive>>

\* lines 842-879: after get_monthly_shift returned
BotCalendarResume ==
    /\ pc = "done"
    /\ op = "get_monthly_shift"
    /\ bot.stage = "await"
    /\ pc' = "idle"
    /\ bot' = IF result.type = "raise"
              THEN [bot EXCEPT !.stage = "finished", !.msg = "raised"]
              ELSE IF BotSeesError(result)
              THEN [bot EXCEPT !.stage = "finished", !.msg = "error"]
              ELSE [bot EXCEPT !.stage = "finished",
                               !.rendererArg = IF HasError(result) THEN "error" ELSE "month",
                               !.photo = TRUE]
    /\ UNCHANGED <<threads, client, portal, loggedIn, csrf_token, sessionLive, op, inRoom, year, month,
                   room_map, current, fetched_weeks, all_shifts, anchors, result, ev, hist>>

(***************************************************************************)
(* handle_caskan_callback / handle_estama_callback, action "schedule".     *)
(***************************************************************************)
\* the handler calls get_schedule of its client
BotSchedule ==
    /\ CanCall
    /\ op' = "get_schedule"
    /\ pc' = IF loggedIn THEN "probe" ELSE LoginStart
    /\ result' = NoValue
    /\ ev' = ZeroEv
    /\ hist' = NoHist
    /\ inRoom' = FALSE
    /\ year' = 0 /\ month' = 0
    /\ room_map' = EmptyMap
    /\ current' = 0
    /\ fetched_weeks' = <<>>
    /\ all_shifts' = <<>>
    /\ anchors' = 0
    /\ bot' = [NoBot EXCEPT !.stage = "await"]
    /\ UNCHANGED <<threads, client, portal, loggedIn, csrf_token, sessionLive>>

\* after get_schedule returned: the error message, or the text cut for the message
BotScheduleResume ==
    /\ pc = "done"
    /\ op = "get_schedule"
    /\ bot.stage = "await"
    /\ pc' = "idle"
    /\ bot' = IF result.type = "raise"
              THEN [bot EXCEPT !.stage = "finished", !.msg = "raised"]
              ELSE IF HasError(result)
              THEN [bot EXCEPT !.stage = "finished", !.msg = "error"]
              ELSE [bot EXCEPT !.stage = "finished", !.msg = "schedule",
                               !.shown = Truncate(result.v.schedule_text,
                                                  ShownThreshold, ShownMarker)]
    /\ UNCHANGED <<threads, client, portal, loggedIn, csrf_token, sessionLive, op, inRoom, year, month,
                   room_map, current, fetched_weeks, all_shifts, anchors, result, ev, hist>>

(***************************************************************************)
(* handle_estama_callback, action "appeal", and                            *)
(* handle_estama_confirm_callback.                                         *)
(***************************************************************************)
\* the handler returns without calling the client
BotOnly(b) ==
    /\ CanCall
    /\ op' = "none"
    /\ pc' = "idle"
    /\ result' = NoValue
    /\ ev' = ZeroEv
    /\ hist' = NoHist
    /\ inRoom' = FALSE
    /\ year' = 0 /\ month' = 0
    /\ room_map' = EmptyMap
    /\ current' = 0
    /\ fetched_weeks' = <<>>
    /\ all_shifts' = <<>>
    /\ anchors' = 0
    /\ bot' = b
    /\ UNCHANGED <<threads, client, portal, loggedIn, csrf_token, sessionLive>>

\* lines 1036-1049: the menu action shows the two confirmation buttons
BotAppealMenu ==
    /\ client = "B"
    /\ BotOnly([NoBot EXCEPT !.stage = "finished", !.cb = "appeal", !.msg = "confirm"])

ConfirmActions == {"appeal_yes", "appeal_no", "other"}

\* action == "appeal_yes"
ConfirmInvokesAppealAny(action) == action \in {"appeal_yes", "appeal_no"}

ConfirmInvokes(action) == action = "appeal_yes"

\* lines 1065-1091
BotAppealConfirm(action) ==
    /\ client = "B"
    /\ action \in ConfirmActions
    /\ IF ConfirmInvokes(action)
       THEN /\ CanCall
            /\ op' = "click_appeal"
            /\ pc' = IF loggedIn THEN "probe" ELSE LoginStart
            /\ result' = NoValue
            /\ ev' = ZeroEv
            /\ hist' = NoHist
            /\ inRoom' = FALSE
            /\ year' = 0 /\ month' = 0
            /\ room_map' = EmptyMap
            /\ current' = 0
            /\ fetched_weeks' = <<>>
            /\ all_shifts' = <<>>
            /\ anchors' = 0
            /\ bot' = [NoBot EXCEPT !.stage = "await", !.cb = action, !.invoked = 1]
            /\ UNCHANGED <<threads, client, portal, loggedIn, csrf_token, sessionLive>>
       ELSE BotOnly([NoBot EXCEPT !.stage = "finished", !.cb = action,
                                  !.msg = IF action = "appeal_no" THEN "cancelled"
                                          ELSE "none"])

\* lines 1080-1087: after click_appeal returned
BotAppealResume ==
    /\ pc = "done"
    /\ op = "click_appeal"
    /\ bot.stage = "await"
    /\ pc' = "idle"
    /\ bot' = IF result.type = "raise"
              THEN [bot EXCEPT !.stage = "finished", !.msg = "raised"]
              ELSE [bot EXCEPT !.stage = "finished",
                               !.msg = IF result.v THEN "appealed" ELSE "failed"]
    /\ UNCHANGED <<threads, client, portal, loggedIn, csrf_token, sessionLive, op, inRoom, year, month,
                   room_map, current, fetched_weeks, all_shifts, anchors, result, ev, hist>>

(***************************************************************************)
(* Specification.                                                          *)
(***************************************************************************)
Next ==
    \/ Expire
    \/ \E o \in CallOps(client) : Call(o)
    \/ Probe
    \/ LoginStep1
    \/ LoginStep2
    \/ LoginCsrf
    \/ LoginPost
    \/ DataRequest
    \/ RoomRequest
    \/ WeekRequest
    \/ AppealGuidance
    \/ AppealPost
    \/ AppealFallback
    \/ \E p \in CalendarPayloads : BotCalendar(p)
    \/ BotCalendarResume
    \/ BotSchedule
    \/ BotScheduleResume
    \/ BotAppealMenu
    \/ \E action \in ConfirmActions : BotAppealConfirm(action)
    \/ BotAppealResume

Spec == Init /\ [][Next]_vars

(***************************************************************************)
(* Two callers on one client instance.  Neither client takes a lock, so    *)
(* the steps of two domain operations interleave at their requests; each   *)
(* operation is _ensure_login followed by one data GET.                    *)
(***************************************************************************)
InLogin(t) == threads[t].pc \in {"step1", "step2", "csrfget", "loginpost"}

\* login's failure returns leave self._logged_in as it is
FlagOnLoginFailureCleared(flag) == FALSE

FlagOnLoginFailure(flag) == flag

ThreadGoto(t, p) ==
    threads' = [threads EXCEPT ![t].pc = p,
                               ![t].overlap = @ \/ (InLogin(t) /\ InLogin(Other(t)))]

\* login returned False: the operation returns its failure value
ThreadFail(t) ==
    /\ ThreadGoto(t, "idle")
    /\ loggedIn' = FlagOnLoginFailure(loggedIn)

raceFrame == <<client, portal, op, pc, inRoom, year, month, room_map, current, fetched_weeks,
               all_shifts, anchors, result, ev, hist, bot>>

\* the operation begins: "if not self._logged_in"
ThreadCall(t) ==
    /\ threads[t].pc = "idle"
    /\ threads' = [threads EXCEPT ![t] = [NoThread EXCEPT
                        !.pc = IF ~loggedIn THEN LoginStart ELSE "probe"]]
    /\ UNCHANGED <<loggedIn, csrf_token, sessionLive, raceFrame>>

\* the expiry probe; clearing the flag undercuts a caller that relies on it
ThreadProbe(t) ==
    /\ threads[t].pc = "probe"
    /\ \/ /\ Flaky
          /\ ThreadGoto(t, "data")
          /\ UNCHANGED loggedIn
       \/ \E resp \in ProbeResponses(sessionLive) :
            IF ProbeSaysExpired(resp)
            THEN /\ loggedIn' = FlagOnExpiry
                 /\ threads' = [threads EXCEPT
                        ![t].pc = LoginStart,
                        ![Other(t)].undercut =
                            @ \/ threads[Other(t)].pc \in {"probe", "data"}]
            ELSE /\ UNCHANGED loggedIn
                 /\ ThreadGoto(t, "data")
    /\ UNCHANGED <<csrf_token, sessionLive, raceFrame>>

\* first request of login: the step-1 POST, or the GET of the CSRF token
ThreadLoginFirst(t) ==
    /\ threads[t].pc = LoginStart
    /\ IF client = "A"
       THEN /\ \/ Flaky /\ ThreadFail(t)
               \/ \E status \in Step1Responses :
                    IF Step1Ok(status)
                    THEN ThreadGoto(t, "step2") /\ UNCHANGED loggedIn
                    ELSE ThreadFail(t)
            /\ UNCHANGED csrf_token
       ELSE \/ Flaky /\ csrf_token' = "" /\ ThreadFail(t)
            \/ \E tok \in CsrfPages :
                 /\ csrf_token' = tok
                 /\ IF TokenMissing(tok)
                    THEN ThreadFail(t)
                    ELSE ThreadGoto(t, "loginpost") /\ UNCHANGED loggedIn
    /\ UNCHANGED <<sessionLive, raceFrame>>

\* the answer of the second request says whether the portal accepted the login
LoginAccepted ==
    IF client = "A" THEN \E resp \in Step2Responses : Step2Ok(resp)
    ELSE \E resp \in LoginPostResponses : LoginPostOk(resp)

LoginRefused ==
    IF client = "A" THEN \E resp \in Step2Responses : ~Step2Ok(resp)
    ELSE \E resp \in LoginPostResponses : ~LoginPostOk(resp)

\* second request of login: the password POST, or the AJAX POST
ThreadLoginSecond(t) ==
    /\ threads[t].pc \in {"step2", "loginpost"}
    /\ \/ /\ LoginAccepted
          /\ loggedIn' = TRUE
          /\ sessionLive' = TRUE
          /\ ThreadGoto(t, "data")
       \/ /\ Flaky \/ LoginRefused
          /\ ThreadFail(t)
          /\ UNCHANGED sessionLive
    /\ UNCHANGED <<csrf_token, raceFrame>>

\* the data GET of the operation, issued as authenticated; the operation returns
ThreadData(t) ==
    /\ threads[t].pc = "data"
    /\ ThreadGoto(t, "idle")
    /\ UNCHANGED <<loggedIn, csrf_token, sessionLive, raceFrame>>

RaceNext ==
    \/ Expire
    \/ \E t \in Threads : ThreadCall(t)
    \/ \E t \in Threads : ThreadProbe(t)
    \/ \E t \in Threads : ThreadLoginFirst(t)
    \/ \E t \in Threads : ThreadLoginSecond(t)
    \/ \E t \in Threads : ThreadData(t)

SpecRace == Init /\ [][RaceNext]_vars

(***************************************************************************)
(* Properties.                                                             *)
(***************************************************************************)
Returned(o) == pc = "done" /\ op = o

\* get_monthly_shift has returned the month dict
MonthOk == Returned("get_monthly_shift") /\ result.type = "dict" /\ ~HasError(result)

IsoDate(y, m, d) == [y |-> y, m |-> m, d |-> d, pad |-> TRUE]

\* C1: a successful get_monthly_shift result has exactly daysInMonth(year, month)
\* entries in days, keyed by the ISO dates from the first to the last day of the month,
\* whatever the weekly pages contained.
C1_DaysCoverMonth ==
    MonthOk =>
        LET days == result.v.days
        IN  /\ Cardinality(DOMAIN days) = DaysInMonth(year, month)
            /\ DOMAIN days = {IsoDate(year, month, d) : d \in 1..DaysInMonth(year, month)}

\* a leap February built from week pages without any shift row
C1_Witness ==
    /\ MonthOk
    /\ year = 2024 /\ month = 2
    /\ all_shifts = <<>>
    /\ Cardinality(DOMAIN result.v.days) = 29

\* C2: in a successful get_monthly_shift result every day's rooms_used has no
\* duplicate and is, as a set, the set of room_id values of that day's shifts.
C2_RoomsUsedDistinct ==
    MonthOk =>
        \A k \in DOMAIN result.v.days :
            LET ru == result.v.days[k].rooms_used
                sh == result.v.days[k].shifts
            IN  /\ \A i, j \in DOMAIN ru : i # j => ru[i] # ru[j]
                /\ {ru[i] : i \in DOMAIN ru} = {sh[i].room_id : i \in DOMAIN sh}

\* a day with two shifts in the same room
C2_Witness ==
    /\ MonthOk
    /\ \E k \in DOMAIN result.v.days :
            /\ Len(result.v.days[k].shifts) = 2
            /\ Len(result.v.days[k].rooms_used) = 1

\* C3: no public operation lets an exception reach its caller, whichever request
\* raises and also for an invalid (year, month).
C3_NoExceptionEscapes == result.type # "raise"

\* a week-view request of get_monthly_shift raised and the call returned a value
C3_Witness ==
    /\ Returned("get_monthly_shift")
    /\ ev.opRaised
    /\ fetched_weeks # <<>>
    /\ result.type = "dict"

\* the operation's own login check failed or a request in its own body raised
CallFailed == ev.topEnsure = "false" \/ ev.opRaised

NoErrorOps == {"get_room_map", "get_cast_list", "get_news_list", "click_appeal"}

\* the value by which a NoErrorOps operation reports a failure
IsEmptyValue(o, r) ==
    CASE o = "get_room_map" -> r.type = "dict" /\ DOMAIN r.v = {}
      [] o \in ListOps -> r.type = "list" /\ r.v = <<>>
      [] o = "click_appeal" -> r.type = "bool" /\ r.v = FALSE
      [] OTHER -> FALSE

TwoEnsureCalls ==
    /\ Returned("_ensure_login")
    /\ hist.prev # "none"
    /\ ~hist.expPrev /\ ~hist.expNow

\* C5 as stated: two consecutive _ensure_login calls without expiry in between start
\* at most one login sequence in total, whatever the outcome of the first call.
C5_AtMostOneLogin == TwoEnsureCalls => hist.prevLogins + ev.logins <= 1

\* C5 amended: they start at most one login sequence in total when the first call
\* returned true; when the first call returned false (its login sequence failed) the
\* second call starts one more.
C5_OneLoginUnlessFirstFailed ==
    TwoEnsureCalls =>
        /\ hist.prev = "true" => hist.prevLogins + ev.logins <= 1
        /\ hist.prev = "false" => hist.prevLogins = 1 /\ ev.logins = 1

\* the first call logged in, the second only probed
C5_Witness ==
    /\ TwoEnsureCalls
    /\ hist.prev = "true"
    /\ hist.prevLogins = 1
    /\ ev.logins = 0

\* requests of the operation other than the probe and the login sequence
DataIssued == ev.data + ev.room + ev.posts + Len(fetched_weeks) >= 1

NormalResult == result.type \in {"dict", "list", "bool"} /\ ~HasError(result)

FailureOutcome ==
    IF op \in NoErrorOps THEN IsEmptyValue(op, result) ELSE HasError(result)

ArgsValid == op = "get_monthly_shift" => ValidDate(year, month, 1)

\* C6: when the probe of a domain operation finds the session expired, a successful
\* re-login lets the operation issue its data request and return its normal result
\* (for arguments the operation accepts and unless that request raises); a failed
\* re-login makes it return its failure value without any data request.
C6_ExpiryThenRelogin ==
    (pc = "done" /\ op \in DomainOps /\ ev.relogin) =>
        /\ (ev.topEnsure = "true" /\ ArgsValid) =>
                DataIssued /\ (~ev.opRaised => NormalResult)
        /\ ev.topEnsure = "false" => ~DataIssued /\ FailureOutcome

\* expiry found, re-login succeeded, data request issued, normal result
C6_Witness ==
    /\ pc = "done" /\ op \in DomainOps
    /\ ev.relogin /\ ev.topEnsure = "true"
    /\ ev.logins = 1
    /\ DataIssued /\ NormalResult

\* C7: within one call of a public domain operation at most one login sequence is
\* started, get_monthly_shift with its nested get_room_map included.
C7_OneLoginPerCall == op \in DomainOps => ev.logins <= 1

\* a week-view request raised, or was answered by an error page or the login page
StrideFailed == ev.weekFailed \/ (ev.opRaised /\ fetched_weeks # <<>>)

\* C8: when a weekly request of get_monthly_shift fails the call returns the error
\* shape, and no week is requested twice.
C8_StrideFailureIsFatal ==
    Returned("get_monthly_shift") =>
        /\ StrideFailed => HasError(result)
        /\ \A i, j \in DOMAIN fetched_weeks : i # j => fetched_weeks[i] # fetched_weeks[j]

\* C9: when the initial login of get_monthly_shift fails the call returns the error
\* shape and issues neither the room-map request nor a weekly request.
C9_InitialLoginAborts ==
    (Returned("get_monthly_shift") /\ ev.topEnsure = "false") =>
        /\ HasError(result)
        /\ ev.room = 0
        /\ fetched_weeks = <<>>

\* the initial login sequence was started and failed
C9_Witness ==
    /\ Returned("get_monthly_shift")
    /\ ev.topEnsure = "false"
    /\ ev.logins = 1
    /\ HasError(result)

\* C10: the calendar action calls the renderer only with a get_monthly_shift result
\* that has no error field; on an error result it renders nothing and sends no photo.
C10_RendererOnlyOnSuccess ==
    /\ bot.rendererArg # "error"
    /\ (bot.stage = "finished" /\ op = "get_monthly_shift" /\ HasError(result)) =>
            bot.rendererArg = "none" /\ ~bot.photo

\* the handler finished on an error result
C10_Witness ==
    /\ bot.stage = "finished"
    /\ op = "get_monthly_shift"
    /\ HasError(result)
    /\ bot.msg = "error"

\* a login sequence has returned and the call has issued no request since
LoginOver(c) == client = c /\ ev.lr # "none"

\* C11: EstamaClient.login, when the login page carries no csrf_footer field or the
\* GET of it fails: the token is empty, login returns false, the AJAX POST is not
\* issued and self._logged_in is left as it was (false wherever _ensure_login called).
C11_NoTokenNoPost ==
    (LoginOver("B") /\ csrf_token = "") =>
        /\ ev.lr = "false"
        /\ ev.ajax = NoAjax
        /\ loggedIn = ev.li0
        /\ op # "login" => ~loggedIn

\* get_dashboard gave up at the token: no POST, not logged in
C11_Witness ==
    /\ Returned("get_dashboard")
    /\ LoginOver("B")
    /\ csrf_token = ""
    /\ ev.ajax = NoAjax
    /\ ~loggedIn

\* the AJAX answer is a JSON array whose first element is a success sentinel
SentinelAnswer(a) == a.status = 200 /\ a.body \in {"OK", "REDIRECT_OK"}

\* C12: EstamaClient.login returns true and sets self._logged_in iff the AJAX answer is
\* a 200 JSON array whose first element is "OK" or "REDIRECT_OK"; for every other
\* answer (other status, not JSON, empty array, other first element, JSON object,
\* transport failure, no POST at all) it returns false and does not set it.
C12_SentinelIffLoggedIn ==
    LoginOver("B") =>
        /\ ev.lr = "true" <=> SentinelAnswer(ev.ajax)
        /\ ev.lr = "true" => loggedIn
        /\ ev.lr = "false" => loggedIn = ev.li0

\* a sentinel body under status 500 is refused
C12_Witness ==
    /\ LoginOver("B")
    /\ ev.ajax = [status |-> 500, body |-> "OK"]
    /\ ev.lr = "false"
    /\ ~loggedIn

\* a step of the two-step login was answered and failed
StepFailed == ev.s1 \notin {0, 200} \/ ev.s2.status \notin {-1, 0, 200} \/ ev.s2.urlLogin

\* C13: CaskanClient.login returns false and leaves self._logged_in false whenever
\* step 1 answers non-200, step 2 answers non-200, or the URL of the step 2 answer
\* still holds the login path.
C13_EitherStepFailureFails ==
    (LoginOver("A") /\ StepFailed) =>
        /\ ev.lr = "false"
        /\ ~ev.li0 => ~loggedIn

\* C14: within one click_appeal call at most one appeal POST is sent, whatever the
\* guidance page holds and whatever status the POST returns.
C14_AtMostOneAppealPost == op = "click_appeal" => ev.posts <= 1

\* C15: click_appeal on a guidance page without a matching anchor sends no POST and
\* issues the fallback GET; when that GET answers non-200 or fails the call returns
\* false and raises nothing.
C15_FallbackFailureIsFalse ==
    (Returned("click_appeal") /\ ev.found = 0) =>
        /\ ev.posts = 0
        /\ ev.data = 2
        /\ result.type = "bool"
        /\ ev.fb # 200 => result = BoolValue(FALSE)

\* no anchor, the fallback GET answered 404
C15_Witness ==
    /\ Returned("click_appeal")
    /\ ev.found = 0
    /\ ev.fb = 404
    /\ result = BoolValue(FALSE)

\* the rows of the page whose joined text is not blank, as positions in the page
KeptRows(page) == {i \in DOMAIN page : page[i] # <<>> /\ Strip(Join(page[i])) # <<>>}

\* C16: get_reservations of either client returns count = the number of non-empty rows
\* of the page and reservations = the first min(20, count) of them in page order; the
\* cap does not reduce count.
C16_CountIsTotal ==
    (Returned("get_reservations") /\ ~HasError(result)) =>
        LET kept == KeptRows(ev.page)
            res == result.v.reservations
            cnt == result.v.count
        IN  /\ cnt = Cardinality(kept)
            /\ Len(res) = IF cnt < 20 THEN cnt ELSE 20
            /\ \A j \in DOMAIN res :
                  \E i \in kept :
                      /\ Cardinality({x \in kept : x <= i}) = j
                      /\ res[j] = Join(ev.page[i])

\* more rows than the cap, some of them dropped as empty
C16_Witness ==
    /\ Returned("get_reservations")
    /\ ~HasError(result)
    /\ result.v.count > 20
    /\ Len(result.v.reservations) = 20
    /\ Len(ev.page) > result.v.count

\* out is text cut at thr characters and followed by marker, or text itself when it
\* is not longer than thr
CutAt(text, out, thr, marker) ==
    IF Len(text) > thr
    THEN /\ Len(out) = thr + Len(marker)
         /\ \A i \in 1..thr : out[i] = text[i]
         /\ \A j \in 1..Len(marker) : out[thr + j] = marker[j]
    ELSE out = text

\* the schedule action has shown the text of a get_schedule result
ScheduleShown ==
    bot.stage = "finished" /\ op = "get_schedule" /\ bot.msg = "schedule"

\* C17: a schedule text longer than its threshold is cut to its first threshold
\* characters followed by the continuation marker, a text at or under the threshold
\* is left as it is: for the text EstamaClient.get_schedule returns (3000) and for the
\* text the schedule action shows for either client (3500); the text EstamaClient cut
\* is shown as returned.
C17_TruncationAtThreshold ==
    /\ (Returned("get_schedule") /\ client = "B" /\ ~HasError(result)) =>
            CutAt(ev.page, result.v.schedule_text, 3000, ClientMarker)
    /\ ScheduleShown =>
            /\ CutAt(result.v.schedule_text, bot.shown, 3500, ShownMarker)
            /\ client = "B" => bot.shown = result.v.schedule_text

\* CaskanClient returned 3501 characters and the action cut them
C17_Witness ==
    /\ ScheduleShown
    /\ client = "A"
    /\ Len(result.v.schedule_text) = 3501
    /\ Len(bot.shown) = 3500 + Len(ShownMarker)

\* C18: get_news_list returns at most 10 items and every title has at most 50
\* characters, for items taken from table rows and for items taken from text lines.
C18_NewsCapped ==
    Returned("get_news_list") =>
        /\ Len(result.v) <= 10
        /\ \A i \in DOMAIN result.v : Len(result.v[i].title) <= 50

\* day of the week by Zeller's congruence, Monday = 0
ZellerMonday(y, m, d) ==
    LET mm == IF m < 3 THEN m + 12 ELSE m
        yy == IF m < 3 THEN y - 1 ELSE y
        K == yy % 100
        J == yy \div 100
        h == (d + ((13 * (mm + 1)) \div 5) + K + (K \div 4) + (J \div 4) + 5 * J) % 7
    IN  (h + 5) % 7

\* C19: in a successful get_monthly_shift result the weekday label of every date is
\* its true day of the week in the Monday-first table (getsu .. nichi); the result
\* for (2024, 2) has 29 entries and labels 2024-02-01 moku (Thursday).
C19_WeekdayLabels ==
    MonthOk =>
        LET days == result.v.days
            labels == <<"getsu", "ka", "sui", "moku", "kin", "do", "nichi">>
        IN  /\ \A k \in DOMAIN days :
                  days[k].weekday = labels[ZellerMonday(k.y, k.m, k.d) + 1]
            /\ (year = 2024 /\ month = 2) =>
                  /\ Cardinality(DOMAIN days) = 29
                  /\ days[IsoDate(2024, 2, 1)].weekday = "moku"

\* February 2024 with shifts on it: the 1st is a Thursday, the 29th too
C19_Witness ==
    /\ MonthOk
    /\ year = 2024 /\ month = 2
    /\ all_shifts # <<>>
    /\ result.v.days[IsoDate(2024, 2, 1)].weekday = "moku"
    /\ result.v.days[IsoDate(2024, 2, 29)].weekday = "moku"

\* C20: a week-view response without any recognisable shift row is not an error:
\* unless another request of the call raises, get_monthly_shift returns the month, and
\* every date of that week has empty shifts and empty rooms_used.
C20_BlankWeekIsNoError ==
    (Returned("get_monthly_shift") /\ ev.blank # {} /\ ~ev.opRaised) =>
        /\ MonthOk
        /\ \A a \in ev.blank : \A n \in a..(a + 6) :
              n <= last_day =>
                  /\ result.v.days[strftime(n)].shifts = <<>>
                  /\ result.v.days[strftime(n)].rooms_used = <<>>

\* every week of the month was answered without a row
C20_Witness ==
    /\ MonthOk
    /\ Cardinality(ev.blank) = Len(fetched_weeks)
    /\ Len(fetched_weeks) = 5
    /\ ~ev.weekFailed
    /\ \A k \in DOMAIN result.v.days : result.v.days[k].shifts = <<>>

\* C21: the expiry probe takes every 30x answer (301, 302, 303, 307, 308) whose
\* Location holds the login path for an expired session: it sets self._logged_in to
\* false and starts a re-login before the call goes on.
C21_Any30xIsExpiry ==
    (ev.pr.status \in {301, 302, 303, 307, 308} /\ ev.pr.login) =>
        /\ ~loggedIn
        /\ pc = LoginStart

\* C22: CaskanClient.login goes step 1, password POST, authenticated: the password
\* POST is issued only after step 1 answered 200, login returns true only after the
\* password POST was answered, and a failed step 1 ends the attempt without it.
C22_LoginOrder ==
    client = "A" =>
        /\ pc = "step2" => ev.s1 = 200
        /\ ev.s2 # NoStep2 => ev.s1 = 200
        /\ (ev.lr = "true" /\ ev.logins > 0) => ev.s2.status > 0
        /\ (ev.lr # "none" /\ ev.s1 # 200) => ev.lr = "false" /\ ev.s2 = NoStep2
        /\ (pc = "step2" /\ ~ev.li0) => ~loggedIn

\* step 1 answered 500: the attempt ended without a password POST
C22_Witness ==
    /\ LoginOver("A")
    /\ ev.s1 = 500
    /\ ev.s2 = NoStep2
    /\ ev.lr = "false"
    /\ ~loggedIn

\* C27: when _ensure_login returns, the value returned equals self._logged_in.
C27_EnsureEqualsFlag == ev.er # "none" => ((ev.er = "true") <=> loggedIn)

\* the probe found the session expired and the re-login failed
C27_Witness ==
    /\ ev.er = "false"
    /\ ev.relogin
    /\ ev.lr = "false"
    /\ ~loggedIn

\* C28: when the expiry probe of an authenticated client raises, _ensure_login
\* returns true, leaves self._logged_in true and starts no login sequence; nothing is
\* raised to the caller and the operation goes on to its next request.
C28_ProbeFailureIsIgnored ==
    ev.pr = ProbeRaised =>
        /\ ev.er = "true"
        /\ loggedIn
        /\ ev.lr = "none"
        /\ result.type # "raise"
        /\ IF op = "_ensure_login" THEN pc = "done" /\ result = BoolValue(TRUE)
           ELSE pc \in {"data", "room", "guidance", "probe"}

\* get_reservations goes on to its GET after its probe raised
C28_Witness ==
    /\ op = "get_reservations"
    /\ ev.pr = ProbeRaised
    /\ pc = "data"
    /\ loggedIn
    /\ ev.logins = 0

\* the anchors of the month: the first day and every seventh day after it
Anchors ==
    [i \in 1..((DaysInMonth(year, month) + 6) \div 7) |-> IsoDate(year, month, 1 + 7 * (i - 1))]

\* C24: get_monthly_shift requests the weeks one after the other in increasing anchor
\* order, one request for each anchor first_day + 7k <= last_day and for no other
\* date: ceil(daysInMonth / 7) requests when it returns the month, 4 for a month of
\* 28 days and 5 otherwise.
C24_OneRequestPerStride ==
    op = "get_monthly_shift" =>
        /\ Len(fetched_weeks) <= Len(Anchors)
        /\ \A i \in DOMAIN fetched_weeks : fetched_weeks[i] = Anchors[i]
        /\ MonthOk =>
              /\ fetched_weeks = Anchors
              /\ Len(fetched_weeks) = IF DaysInMonth(year, month) = 28 THEN 4 ELSE 5

\* February 2023: four requests
C24_Witness ==
    /\ MonthOk
    /\ year = 2023 /\ month = 2
    /\ Len(fetched_weeks) = 4
    /\ fetched_weeks[4] = IsoDate(2023, 2, 22)

\* the entries of a month result, as (date, position) pairs
Entries(days) == UNION {{<<k, i>> : i \in DOMAIN days[k].shifts} : k \in DOMAIN days}

\* C25: in a successful get_monthly_shift result every shift under a date key was built
\* from a row whose data-day is exactly that key, and the key lies in the target year
\* and month; rows whose data-day is outside the month, missing or no valid date are
\* under no key.
C25_ShiftsUnderOwnDate ==
    MonthOk =>
        \A k \in DOMAIN result.v.days :
            \A i \in DOMAIN result.v.days[k].shifts :
                /\ result.v.days[k].shifts[i].time = k
                /\ k.y = year /\ k.m = month

\* two rows were parsed, one of them is in the result
C25_Witness ==
    /\ MonthOk
    /\ ev.rows = 2
    /\ Cardinality(Entries(result.v.days)) = 1

\* C30: the strides cover the month without overlap: every date of the month lies in
\* the seven days of exactly one requested anchor, and no row is recorded twice.
C30_StridesPartitionMonth ==
    MonthOk =>
        /\ \A d \in first_day..last_day :
              Cardinality({i \in DOMAIN fetched_weeks :
                              LET a == ToOrdinal(fetched_weeks[i].y, fetched_weeks[i].m,
                                                 fetched_weeks[i].d)
                              IN  a <= d /\ d <= a + 6}) = 1
        /\ Cardinality(Entries(result.v.days)) <= ev.rows

\* April 2024: five strides, the last one of two days, a shift recorded once
C30_Witness ==
    /\ MonthOk
    /\ year = 2024 /\ month = 4
    /\ Len(fetched_weeks) = 5
    /\ ev.rows = 1
    /\ Cardinality(Entries(result.v.days)) = 1

\* the inputs of a form that have a name, in document order
NamedInputs(form) == SelectSeq(form, LAMBDA inp : inp.name # "")

\* C23: the appeal POST carries every named input of the form of its anchor, the i-th
\* of them as the pair str[i][name], str[i][value], together with the current CSRF
\* token; no field is lost when the form has more than one named input.
C23_EveryFieldPosted ==
    (op = "click_appeal" /\ DOMAIN ev.sent # {}) =>
        LET named == NamedInputs(ev.form)
        IN  /\ ev.sent[<<-1, "ctk">>] = AppealToken(ev.ptok)
            /\ \A i \in DOMAIN named :
                  /\ <<i - 1, "name">> \in DOMAIN ev.sent
                  /\ <<i - 1, "value">> \in DOMAIN ev.sent
                  /\ ev.sent[<<i - 1, "name">>] = named[i].name
                  /\ ev.sent[<<i - 1, "value">>] = named[i].value

\* C29: the bot calls click_appeal only while it handles the confirmation callback
\* appeal_yes, and once for each such callback; the appeal menu action only shows the
\* confirmation prompt and the callback appeal_no calls nothing.
C29_AppealOnlyOnConfirm ==
    /\ (op = "click_appeal" /\ pc # "idle") => bot.cb = "appeal_yes"
    /\ bot.invoked <= 1
    /\ bot.invoked = 1 <=> (bot.cb = "appeal_yes" /\ op = "click_appeal")
    /\ bot.cb \in {"appeal", "appeal_no", "other"} =>
            /\ op = "none" /\ pc = "idle"
            /\ ev.posts = 0 /\ ev.data = 0
    /\ bot.cb = "appeal" => bot.msg = "confirm"

\* the confirmed appeal was posted once and reported
C29_Witness ==
    /\ bot.cb = "appeal_yes"
    /\ bot.stage = "finished"
    /\ bot.invoked = 1
    /\ ev.posts = 1
    /\ bot.msg = "appealed"

\* C26: two domain operations that run at once on one client instance race on the
\* login state.  A caller goes on as authenticated while self._logged_in is false
\* exactly through the other caller's expiry detection, the only step that clears
\* the flag; C26_Witness is the interleaving in which that happens to a caller whose
\* login sequence had run at the same time as the other caller's.
C26_FlagLostOnlyByOtherCaller ==
    \A t \in Threads :
        (threads[t].pc = "data" /\ ~loggedIn) => threads[t].undercut

\* both callers ran a login sequence at once; later one of them proceeds as
\* authenticated while the other, having detected the expiry, has cleared the flag
\* and is logging in again
C26_Witness ==
    \E t \in Threads :
        /\ threads[t].pc = "data"
        /\ threads[t].overlap
        /\ threads[t].undercut
        /\ ~loggedIn
        /\ InLogin(Other(t))

====
